---- MODULE Spec2Model ----
(***************************************************************************)
(* Model of backend/src/utils/svgParser.ts: parseSvg's callback on the     *)
(* tree xml2js hands back.  The callback resolves the canvas size from the *)
(* root attributes, walks the tree with extractAllElements (counting the   *)
(* primitive elements and extracting the rectangles) and assembles the     *)
(* ParsedSVGResult.                                                        *)
(*                                                                         *)
(* Representation.                                                         *)
(*  - An attribute text is a sequence of one-character strings.  A missing *)
(*    attribute is the empty sequence: every read of an attribute in the   *)
(*    code goes through a truthiness test (`if (widthAttr)`, `x || '0'`),  *)
(*    for which undefined and '' behave alike.                             *)
(*  - A JavaScript number is a record [nan, v]; v counts tenths, so the    *)
(*    text "1.5" is v = 15 and the canvas default 100 is v = 1000.  The    *)
(*    input texts carry at most one fractional digit, which makes the      *)
(*    representation exact.                                                *)
(*  - The tree is a heap: doc[i] is the object with identity i, with an    *)
(*    optional attribute map ($) and child arrays keyed by tag name.       *)
(*    doc[0] is the object parseString passes as `result`; its only key is *)
(*    the root tag (xml2js default options: explicitRoot).  An element     *)
(*    with neither attributes nor children, which xml2js hands over as the *)
(*    empty string, is the node without attribute map and without child    *)
(*    arrays: `.$` of either is undefined.                                 *)
(***************************************************************************)
EXTENDS Integers, Sequences, FiniteSets, TLC

VARIABLES doc, pc, svgWidth, svgHeight, visited, totalElementsCount, items,
          stack, result

vars == <<doc, pc, svgWidth, svgHeight, visited, totalElementsCount, items,
          stack, result>>

---------------------------------------------------------------------------
(* Numbers *)

NaN == [nan |-> TRUE, v |-> 0]

Num(tenths) == [nan |-> FALSE, v |-> tenths]

\* a whole number n as a JavaScript number
Whole(n) == Num(n * 10)

isNaN(a) == a.nan

\* a === 0 || isNaN(a)
IsZeroOrNaN(a) == a.nan \/ a.v = 0

\* a < b and a > b (false as soon as one side is NaN)
Less(a, b) == ~a.nan /\ ~b.nan /\ a.v < b.v

Greater(a, b) == ~a.nan /\ ~b.nan /\ a.v > b.v

\* a + b
Plus(a, b) == IF a.nan \/ b.nan THEN NaN ELSE Num(a.v + b.v)

---------------------------------------------------------------------------
(* Texts *)

DigitValue ==
    ("0" :> 0) @@ ("1" :> 1) @@ ("2" :> 2) @@ ("3" :> 3) @@ ("4" :> 4) @@
    ("5" :> 5) @@ ("6" :> 6) @@ ("7" :> 7) @@ ("8" :> 8) @@ ("9" :> 9)

IsDigit(c) == c \in DOMAIN DigitValue

\* the characters /[\s,]/ matches
IsSeparator(c) == c \in {" ", ","}

RECURSIVE TakeDigits(_)
\* the longest prefix of s made of digits
TakeDigits(s) ==
    IF s = <<>> \/ ~IsDigit(Head(s)) THEN <<>>
    ELSE <<Head(s)>> \o TakeDigits(Tail(s))

RECURSIVE DropWhitespace(_)
DropWhitespace(s) ==
    IF s # <<>> /\ Head(s) = " " THEN DropWhitespace(Tail(s)) ELSE s

RECURSIVE DigitsValue(_)
\* the value of a sequence of digits (0 for the empty one)
DigitsValue(ds) ==
    IF ds = <<>> THEN 0
    ELSE DigitsValue(SubSeq(ds, 1, Len(ds) - 1)) * 10 + DigitValue[ds[Len(ds)]]

Drop(s, n) == SubSeq(s, n + 1, Len(s))

\* parseFloat(s): leading whitespace, an optional sign, digits, an optional
\* "." and digits; whatever follows is ignored; NaN when no digit was read.
parseFloat(s) ==
    LET t        == DropWhitespace(s)
        signed   == t # <<>> /\ Head(t) \in {"-", "+"}
        negative == t # <<>> /\ Head(t) = "-"
        u        == IF signed THEN Tail(t) ELSE t
        whole    == TakeDigits(u)
        afterInt == Drop(u, Len(whole))
        fraction == IF afterInt # <<>> /\ Head(afterInt) = "."
                    THEN TakeDigits(Tail(afterInt)) ELSE <<>>
        tenths   == DigitsValue(whole) * 10
                    + (IF fraction = <<>> THEN 0 ELSE DigitValue[fraction[1]])
    IN  IF whole = <<>> /\ fraction = <<>> THEN NaN
        ELSE Num(IF negative THEN 0 - tenths ELSE tenths)

\* s.replace(/[^\d.]/g, '')
StripNonNumeric(s) == SelectSeq(s, LAMBDA c : IsDigit(c) \/ c = ".")

RECURSIVE DropSeparators(_)
DropSeparators(s) ==
    IF s # <<>> /\ IsSeparator(Head(s)) THEN DropSeparators(Tail(s)) ELSE s

RECURSIVE SplitFrom(_, _)
SplitFrom(rest, current) ==
    IF rest = <<>> THEN <<current>>
    ELSE IF IsSeparator(Head(rest))
         THEN <<current>> \o SplitFrom(DropSeparators(rest), <<>>)
         ELSE SplitFrom(Tail(rest), Append(current, Head(rest)))

\* s.split(/[\s,]+/)
Split(s) == SplitFrom(s, <<>>)

\* viewBoxStr.split(/[\s,]+/).map(parseFloat).filter(n => !isNaN(n))
ParseViewBox(s) ==
    LET tokens  == Split(s)
        numbers == [i \in 1..Len(tokens) |-> parseFloat(tokens[i])]
    IN  SelectSeq(numbers, LAMBDA n : ~isNaN(n))

---------------------------------------------------------------------------
(* The parsed tree *)

\* element.$ is set
HasAttributes(element) == "attrs" \in DOMAIN element

\* element.$[name]; the empty text when the attribute is missing
Attribute(element, name) ==
    IF name \in DOMAIN element.attrs THEN element.attrs[name] ELSE <<>>

\* element[tag] is set
HasChild(element, tag) == tag \in DOMAIN element.kids

\* Array.isArray(element[tag]) ? element[tag] : [element[tag]].  A single
\* child object (the root under `result`) is held as a one-element sequence.
Children(element, tag) == element.kids[tag]

---------------------------------------------------------------------------
(* Canvas size: parseSvg, "Extract SVG dimensions" *)

\* const svgElement = result.svg || result
SvgElement(d) ==
    IF HasChild(d[0], "svg") THEN d[Children(d[0], "svg")[1]] ELSE d[0]

\* if (widthAttr) svgWidth = parseFloat(widthAttr.toString().replace(...)),
\* on top of the initial 0
AttributeDimension(text) ==
    IF text # <<>> THEN parseFloat(StripNonNumeric(text)) ELSE Whole(0)

\* ViewBoxDimension with the test of the current value left out
ViewBoxDimension_Overrides(current, viewBox, k) ==
    IF Len(viewBox) = 4 THEN viewBox[k] ELSE current

\* if (viewBox.length === 4) { if (dim === 0 || isNaN(dim)) dim = viewBox[k] }
ViewBoxDimension(current, viewBox, k) ==
    IF Len(viewBox) = 4 /\ IsZeroOrNaN(current) THEN viewBox[k] ELSE current

\* the width and height the attributes and the viewBox give (lines 41-64)
DimensionsFromAttributes(svgElement) ==
    IF ~HasAttributes(svgElement)
    THEN [width |-> Whole(0), height |-> Whole(0)]
    ELSE LET w  == AttributeDimension(Attribute(svgElement, "width"))
             h  == AttributeDimension(Attribute(svgElement, "height"))
             vb == Attribute(svgElement, "viewBox")
         IN  IF vb # <<>>
             THEN [width  |-> ViewBoxDimension(w, ParseViewBox(vb), 3),
                   height |-> ViewBoxDimension(h, ParseViewBox(vb), 4)]
             ELSE [width |-> w, height |-> h]

\* ApplyFallback with the default left out
ApplyFallback_Missing(dim) == dim

\* "Fallback: if dimensions are still 0, use defaults"
ApplyFallback(dim) ==
    IF IsZeroOrNaN(dim.width) /\ IsZeroOrNaN(dim.height)
    THEN [width |-> Whole(100), height |-> Whole(100)]
    ELSE dim

ResolveDimensions(d) == ApplyFallback(DimensionsFromAttributes(SvgElement(d)))

---------------------------------------------------------------------------
(* extractAllElements *)

MAX_RECURSION_DEPTH == 100

\* elementTypes without its first entry
elementTypes_NoRect ==
    <<"path", "circle", "ellipse", "polygon", "polyline", "line", "text",
      "use", "image">>

elementTypes ==
    <<"rect", "path", "circle", "ellipse", "polygon", "polyline", "line",
      "text", "use", "image">>

RECURSIVE CountFrom(_, _)
CountFrom(element, k) ==
    IF k > Len(elementTypes) THEN 0
    ELSE (IF HasChild(element, elementTypes[k])
          THEN Len(Children(element, elementTypes[k])) ELSE 0)
         + CountFrom(element, k + 1)

\* what the elementTypes.forEach adds to totalElementsCount
CountElements(element) == CountFrom(element, 1)

\* parseFloat(rect.$.x || '0')
RectNumber(rect, name) ==
    LET text == Attribute(rect, name)
    IN  parseFloat(IF text # <<>> THEN text ELSE <<"0">>)

\* rect.$.fill || '#000000'
RectFill(rect) ==
    LET text == Attribute(rect, "fill")
    IN  IF text # <<>> THEN text ELSE <<"#", "0", "0", "0", "0", "0", "0">>

\* IsOutOfBounds with >= for > on the far edges
IsOutOfBounds_Inclusive(x, y, width, height, canvasWidth, canvasHeight) ==
    \/ Less(x, Whole(0))
    \/ Less(y, Whole(0))
    \/ ~Less(Plus(x, width), canvasWidth)
    \/ ~Less(Plus(y, height), canvasHeight)

\* x < 0 || y < 0 || x + width > svgWidth || y + height > svgHeight
IsOutOfBounds(x, y, width, height, canvasWidth, canvasHeight) ==
    \/ Less(x, Whole(0))
    \/ Less(y, Whole(0))
    \/ Greater(Plus(x, width), canvasWidth)
    \/ Greater(Plus(y, height), canvasHeight)

\* reading rect.$.x of a rect without an attribute map is a TypeError
RectThrows(rect) == ~HasAttributes(rect)

\* the item the rects.forEach body pushes
RectItem(rect, canvasWidth, canvasHeight) ==
    LET x      == RectNumber(rect, "x")
        y      == RectNumber(rect, "y")
        width  == RectNumber(rect, "width")
        height == RectNumber(rect, "height")
        item   == [x |-> x, y |-> y, width |-> width, height |-> height,
                   fill |-> RectFill(rect)]
    IN  IF IsOutOfBounds(x, y, width, height, canvasWidth, canvasHeight)
        THEN item @@ [issue |-> "OUT_OF_BOUNDS"]
        ELSE item

\* the rects of element, in order
Rects(d, element) ==
    IF HasChild(element, "rect")
    THEN [i \in 1..Len(Children(element, "rect")) |->
            d[Children(element, "rect")[i]]]
    ELSE <<>>

\* the number of rects the forEach handles before one of them throws
RectsBeforeThrow(rects) ==
    IF \E i \in 1..Len(rects) : RectThrows(rects[i])
    THEN (CHOOSE i \in 1..Len(rects) :
            /\ RectThrows(rects[i])
            /\ \A j \in 1..(i - 1) : ~RectThrows(rects[j])) - 1
    ELSE Len(rects)

\* the recursive calls the body makes, in order: every g, then, below the
\* root call, every svg
ChildCalls(element, depth) ==
    LET groups == IF HasChild(element, "g") THEN Children(element, "g") ELSE <<>>
        svgs   == IF HasChild(element, "svg") /\ depth > 0
                  THEN Children(element, "svg") ELSE <<>>
        all    == groups \o svgs
    IN  [i \in 1..Len(all) |-> [element |-> all[i], depth |-> depth + 1]]

---------------------------------------------------------------------------
(* Issues and coverage: the end of parseSvg *)

hasOutOfBounds(its) ==
    \E i \in 1..Len(its) :
        "issue" \in DOMAIN its[i] /\ its[i].issue = "OUT_OF_BOUNDS"

\* DetectIssues with EMPTY decided by the rectangles alone
DetectIssues_NoRectangles(total, its) ==
    (IF Len(its) = 0 THEN <<"EMPTY">> ELSE <<>>)
    \o (IF hasOutOfBounds(its) THEN <<"OUT_OF_BOUNDS">> ELSE <<>>)

\* issues after the EMPTY and the OUT_OF_BOUNDS checks
DetectIssues(total, its) ==
    (IF total = 0 THEN <<"EMPTY">> ELSE <<>>)
    \o (IF hasOutOfBounds(its) THEN <<"OUT_OF_BOUNDS">> ELSE <<>>)

\* a * b; the product of two numbers in tenths counts hundredths
Times(a, b) == IF a.nan \/ b.nan THEN NaN ELSE Num(a.v * b.v)

RECURSIVE TotalRectArea(_)
\* items.reduce((sum, item) => sum + item.width * item.height, 0).  The sum
\* is added up by halves, which keeps the evaluation shallow for long item
\* lists; the grouping changes neither the sum nor whether it is NaN.
TotalRectArea(its) ==
    IF its = <<>> THEN Num(0)
    ELSE IF Len(its) = 1 THEN Plus(Num(0), Times(its[1].width, its[1].height))
    ELSE LET half == Len(its) \div 2
         IN  Plus(TotalRectArea(SubSeq(its, 1, half)),
                  TotalRectArea(SubSeq(its, half + 1, Len(its))))

\* svgArea > 0 ? totalRectArea / svgArea : 0, as the fraction num / den
CoverageRatio(its, canvasWidth, canvasHeight) ==
    LET totalRectArea == TotalRectArea(its)
        svgArea       == Times(canvasWidth, canvasHeight)
    IN  IF Greater(svgArea, Num(0))
        THEN [nan |-> totalRectArea.nan, num |-> totalRectArea.v,
              den |-> svgArea.v]
        ELSE [nan |-> FALSE, num |-> 0, den |-> 1]

---------------------------------------------------------------------------
(* Steps of the parseString callback *)

\* lines 34-78 and the first call, extractAllElements(result, 0)
ExtractDimensions ==
    /\ pc = "parsed"
    /\ svgWidth' = ResolveDimensions(doc).width
    /\ svgHeight' = ResolveDimensions(doc).height
    /\ stack' = <<[element |-> 0, depth |-> 0]>>
    /\ pc' = "walking"
    /\ UNCHANGED <<doc, visited, totalElementsCount, items, result>>

\* AlreadyVisited with the membership test left out
AlreadyVisited_Never(element, seen) == FALSE

\* visited.has(element)
AlreadyVisited(element, seen) == element \in seen

\* one call of extractAllElements: the head of stack is the call that runs
\* next; the calls its body makes run before the calls that were waiting.
\* A TypeError in the body unwinds to the catch, which rejects.  Every
\* element of the tree is an object, so `!element` is never true.
ExtractAllElements ==
    /\ pc = "walking"
    /\ stack # <<>>
    /\ LET call    == Head(stack)
           element == doc[call.element]
           rects   == Rects(doc, element)
           done    == RectsBeforeThrow(rects)
       IN  IF call.depth > MAX_RECURSION_DEPTH
              \/ AlreadyVisited(call.element, visited)
           THEN /\ stack' = Tail(stack)
                /\ UNCHANGED <<pc, visited, totalElementsCount, items>>
           ELSE /\ visited' = visited \cup {call.element}
                /\ totalElementsCount' =
                       totalElementsCount + CountElements(element)
                /\ items' = items \o
                       [i \in 1..done |-> RectItem(rects[i], svgWidth, svgHeight)]
                /\ IF done < Len(rects)
                   THEN pc' = "rejected" /\ stack' = <<>>
                   ELSE /\ pc' = pc
                        /\ stack' = ChildCalls(element, call.depth) \o Tail(stack)
    /\ UNCHANGED <<doc, svgWidth, svgHeight, result>>

\* lines 158-192: issues, coverage, resolve
AssembleResult ==
    /\ pc = "walking"
    /\ stack = <<>>
    /\ result' = <<[svgWidth      |-> svgWidth,
                    svgHeight     |-> svgHeight,
                    items         |-> items,
                    itemsCount    |-> totalElementsCount,
                    coverageRatio |-> CoverageRatio(items, svgWidth, svgHeight),
                    issues        |-> DetectIssues(totalElementsCount, items)]>>
    /\ pc' = "resolved"
    /\ UNCHANGED <<doc, svgWidth, svgHeight, visited, totalElementsCount,
                   items, stack>>

Next == ExtractDimensions \/ ExtractAllElements \/ AssembleResult

\* the callback's locals before its first statement runs, for the tree d
Start(d) ==
    /\ doc = d
    /\ pc = "parsed"
    /\ svgWidth = Whole(0)
    /\ svgHeight = Whole(0)
    /\ visited = {}
    /\ totalElementsCount = 0
    /\ items = <<>>
    /\ stack = <<>>
    /\ result = <<>>

---------------------------------------------------------------------------
(* Input trees *)

RECURSIVE SortedSeq(_)
\* the members of a set of node identities, in rising order
SortedSeq(S) ==
    IF S = {} THEN <<>>
    ELSE LET m == CHOOSE x \in S : \A y \in S : x <= y
         IN  <<m>> \o SortedSeq(S \ {m})

\* an object with the attribute map a (a one-element sequence) or without
\* one (the empty sequence), and the child arrays k
Node(a, k) == IF a = <<>> THEN [kids |-> k] ELSE [attrs |-> a[1], kids |-> k]

NoAttributes == <<>>

\* the attribute maps of the rects of the small trees
RectAttributes ==
    { NoAttributes,
      \* x="90" y="90" width="20" height="20" fill="#f00"
      <<[x |-> <<"9", "0">>, y |-> <<"9", "0">>, width |-> <<"2", "0">>,
         height |-> <<"2", "0">>, fill |-> <<"#", "f", "0", "0">>]>>,
      \* x="80" width="20" height="100": touches the right and bottom edge
      <<[x |-> <<"8", "0">>, width |-> <<"2", "0">>,
         height |-> <<"1", "0", "0">>]>>,
      \* x="10" y="10" width="-10" height="10"
      <<[x |-> <<"1", "0">>, y |-> <<"1", "0">>, width |-> <<"-", "1", "0">>,
         height |-> <<"1", "0">>]>>,
      \* x="abc" width="10" height="10"
      <<[x |-> <<"a", "b", "c">>, width |-> <<"1", "0">>,
         height |-> <<"1", "0">>]>>,
      \* x="-.5" fill="red"
      <<[x |-> <<"-", ".", "5">>, fill |-> <<"r", "e", "d">>]>> }

\* the attribute maps of the root svg of the small trees
RootAttributes ==
    { NoAttributes,
      <<[width |-> <<"1", "0", "0">>, height |-> <<"1", "0", "0">>]>> }

\* a nested svg declares a viewport of its own: width="10" height="10"
NestedSvgAttributes == <<[width |-> <<"1", "0">>, height |-> <<"1", "0">>]>>

ContainerTags == {"svg", "g"}

\* what the root element can be, and what an element below it can be
RootElements ==
    {[tag |-> "svg", attrs |-> a] : a \in RootAttributes}
    \cup {[tag |-> "g", attrs |-> NoAttributes]}

InnerElements ==
    {[tag |-> "rect", attrs |-> a] : a \in RectAttributes}
    \cup {[tag |-> "circle", attrs |-> NoAttributes],
          [tag |-> "g", attrs |-> NoAttributes],
          [tag |-> "svg", attrs |-> NestedSvgAttributes]}

\* the child arrays of node i: its children by tag, in document order
KidsOf(i, n, parent, el) ==
    LET mine == {j \in 1..n : parent[j] = i}
        tags == {el[j].tag : j \in mine}
    IN  [t \in tags |-> SortedSeq({j \in mine : el[j].tag = t})]

\* the tree of n elements in which element j is el[j], a child of parent[j];
\* element 1 is the root, the single child of result (node 0)
Tree(n, parent, el) ==
    [i \in 0..n |->
        Node(IF i = 0 THEN NoAttributes ELSE el[i].attrs, KidsOf(i, n, parent, el))]

MaxNodes == 3

\* every tree of at most MaxNodes elements whose inner nodes are svg or g
SmallTrees ==
    UNION { { Tree(n, parent, el) :
                parent \in { f \in [1..n -> 0..(n - 1)] :
                               \A j \in 1..n : f[j] < j /\ (j > 1 => f[j] >= 1) },
                el \in { e \in [1..n -> RootElements \cup InnerElements] :
                           /\ e[1] \in RootElements
                           /\ \A j \in 2..n : e[j] \in InnerElements } }
            : n \in 1..MaxNodes }

\* only svg and g elements have children
WellFormedTree(d) ==
    \A i \in DOMAIN d : \A t \in DOMAIN d[i].kids :
        \A k \in 1..Len(d[i].kids[t]) :
            d[d[i].kids[t][k]].kids # <<>> => t \in ContainerTags

Init == \E d \in SmallTrees : WellFormedTree(d) /\ Start(d)

Spec == Init /\ [][Next]_vars

---------------------------------------------------------------------------
(* Input trees for the canvas size: the root svg with every combination of *)
(* width, height and viewBox texts, and one rect below it                  *)

WidthTexts ==
    { <<>>,                          \* no width
      <<"2", "0", "0">>,             \* "200"
      <<"0">>,                       \* "0"
      <<"p", "x">>,                  \* "px": nothing left to parse
      <<"-", "5">>,                  \* "-5"
      <<"1", ".", "5", "p", "x">> }  \* "1.5px"

HeightTexts ==
    { <<>>,
      <<"1", "0", "0">>,             \* "100"
      <<"0">>,
      <<"a", "u", "t", "o">>,        \* "auto"
      <<"5", "0", "%">> }            \* "50%"

ViewBoxTexts ==
    { <<>>,
      <<"0", " ", "0", " ", "5", "0", " ", "5", "0">>,        \* "0 0 50 50"
      <<"0", ",", "0", ",", " ", "3", "0", ",", "4", "0">>,   \* "0,0, 30,40"
      <<"0", " ", "0", " ", "5", "0">>,                       \* "0 0 50"
      <<"0", " ", "0", " ", "-", "5", " ", "1", "0">>,        \* "0 0 -5 10"
      <<"0", " ", "0", " ", "0", " ", "0">>,                  \* "0 0 0 0"
      <<"0", " ", "0", " ", "x", " ", "5", "0", " ", "5", "0">> } \* "0 0 x 50 50"

\* the attribute map of <svg xmlns=... width=w height=h viewBox=vb>, a
\* missing attribute being no key of the map
SvgAttributes(w, h, vb) ==
    LET text == [width |-> w, height |-> h, viewBox |-> vb,
                 xmlns |-> <<"s", "v", "g">>]
    IN  [name \in {m \in DOMAIN text : text[m] # <<>>} |-> text[name]]

ScenarioRect ==
    [x |-> <<"9", "0">>, y |-> <<"9", "0">>, width |-> <<"2", "0">>,
     height |-> <<"2", "0">>, fill |-> <<"#", "f", "0", "0">>]

\* <svg ...><rect x="90" y="90" width="20" height="20" fill="#f00"/></svg>
SvgWithRect(rootAttrs) ==
    Tree(2, <<0, 1>>, <<[tag |-> "svg", attrs |-> rootAttrs],
                        [tag |-> "rect", attrs |-> <<ScenarioRect>>]>>)

DimensionTrees ==
    { SvgWithRect(<<SvgAttributes(w, h, vb)>>) :
        w \in WidthTexts, h \in HeightTexts, vb \in ViewBoxTexts }
    \cup { SvgWithRect(NoAttributes) }

InitDim == \E d \in DimensionTrees : Start(d)

SpecDim == InitDim /\ [][Next]_vars

---------------------------------------------------------------------------
(* Deep and cyclic inputs: a chain of len nested containers, each holding  *)
(* one rect, below the root; the last one may refer back to an earlier one *)

InsideRect ==
    [x |-> <<"1", "0">>, y |-> <<"1", "0">>, width |-> <<"2", "0">>,
     height |-> <<"2", "0">>]

\* nodes 1..len are the chain (node 1 is the root, of tag rootTag, the others
\* are g), node len + i is the rect of node i; back is <<>> or <<tag, target>>
Chain(len, rootTag, back) ==
    [i \in 0..(2 * len) |->
        IF i = 0 THEN [kids |-> (rootTag :> <<1>>)]
        ELSE IF i > len THEN [attrs |-> InsideRect, kids |-> <<>>]
        ELSE [kids |->
                ("rect" :> <<len + i>>)
                @@ (IF i < len THEN ("g" :> <<i + 1>>)
                    ELSE IF back # <<>> THEN (back[1] :> <<back[2]>>)
                    ELSE <<>>)]]

\* how many containers the longest chain has beyond MAX_RECURSION_DEPTH
ChainExtra == 1

ChainLengths == (MAX_RECURSION_DEPTH - 1)..(MAX_RECURSION_DEPTH + ChainExtra)

BackReferences(len) == {<<>>, <<"g", 1>>, <<"svg", 1>>, <<"g", len>>}

DeepTrees ==
    UNION { { Chain(len, rootTag, back) :
                rootTag \in ContainerTags, back \in BackReferences(len) }
            : len \in ChainLengths }

InitDeep == \E d \in DeepTrees : Start(d)

SpecDeep == InitDeep /\ [][Next]_vars

---------------------------------------------------------------------------
(* What the claims speak of *)

Done == pc \in {"resolved", "rejected"}

\* the positions (parent, tag, index) of the child arrays of tag t in d
Occurrences(d, t) ==
    UNION { IF t \in DOMAIN d[i].kids
            THEN {<<i, t, k>> : k \in 1..Len(d[i].kids[t])}
            ELSE {} : i \in DOMAIN d }

\* the number of rect nodes anywhere in the tree
RectOccurrences(d) == Cardinality(Occurrences(d, "rect"))

CountedTags ==
    {"rect", "path", "circle", "ellipse", "polygon", "polyline", "line",
     "text", "use", "image"}

\* the number of nodes of a counted tag anywhere in the tree
PrimitiveOccurrences(d) ==
    Cardinality(UNION {Occurrences(d, t) : t \in CountedTags})

HasIssue(item) == "issue" \in DOMAIN item

\* the fraction r is num / den of whole numbers
RatioIs(r, num, den) == ~r.nan /\ r.num * den = num * r.den

\* <svg width="100" height="100"><rect x="90" y="90" width="20" height="20"
\* fill="#f00"/></svg>
ScenarioTree ==
    SvgWithRect(<<[width |-> <<"1", "0", "0">>, height |-> <<"1", "0", "0">>]>>)

\* C1: every rect node of the tree (below the root svg, below a g, below a
\* nested svg) has exactly one item in the returned items; the 100x100
\* document with the single rect 90,90,20,20 returns that one item, marked
\* OUT_OF_BOUNDS, coverageRatio 400/10000 and issues [OUT_OF_BOUNDS].
C1_OneItemPerRect ==
    pc = "resolved" =>
        /\ Len(result[1].items) = RectOccurrences(doc)
        /\ doc = ScenarioTree =>
            /\ result[1].items =
                 <<[x |-> Whole(90), y |-> Whole(90), width |-> Whole(20),
                    height |-> Whole(20), fill |-> <<"#", "f", "0", "0">>,
                    issue |-> "OUT_OF_BOUNDS"]>>
            /\ RatioIs(result[1].coverageRatio, 400, 10000)
            /\ result[1].issues = <<"OUT_OF_BOUNDS">>

\* <svg><circle/></svg>
CircleTree ==
    Tree(2, <<0, 1>>, <<[tag |-> "svg", attrs |-> NoAttributes],
                        [tag |-> "circle", attrs |-> NoAttributes]>>)

\* C2: itemsCount is the number of nodes of a counted tag anywhere in the
\* tree; the document holding one circle returns itemsCount 1, no item,
\* coverageRatio 0 and no issue.
C2_CountsEveryPrimitive ==
    pc = "resolved" =>
        /\ result[1].itemsCount = PrimitiveOccurrences(doc)
        /\ doc = CircleTree =>
            /\ result[1].itemsCount = 1
            /\ result[1].items = <<>>
            /\ RatioIs(result[1].coverageRatio, 0, 1)
            /\ result[1].issues = <<>>

---------------------------------------------------------------------------
(* The canvas size *)

\* the root attribute text, the empty text when there is none
RootText(name) ==
    LET root == SvgElement(doc)
    IN  IF HasAttributes(root) /\ name \in DOMAIN root.attrs
        THEN root.attrs[name] ELSE <<>>

\* the number a width/height attribute parses to; 0 when it is missing
Parsed(name) ==
    IF RootText(name) = <<>> THEN Whole(0)
    ELSE parseFloat(StripNonNumeric(RootText(name)))

\* the numbers of the viewBox, when it holds four of them
ViewBoxNumbers == ParseViewBox(RootText("viewBox"))

WellFormedViewBox == RootText("viewBox") # <<>> /\ Len(ViewBoxNumbers) = 4

\* the value of a dimension after the attribute and the viewBox steps
AfterViewBox(name, k) ==
    IF IsZeroOrNaN(Parsed(name)) /\ WellFormedViewBox
    THEN ViewBoxNumbers[k] ELSE Parsed(name)

Positive(a) == ~a.nan /\ a.v > 0

\* C3 as stated: the resolved canvas has width > 0 and height > 0.
C3_CanvasPositive ==
    pc # "parsed" => Positive(svgWidth) /\ Positive(svgHeight)

\* C3, amended: resolution never fails and never leaves both dimensions 0
\* or NaN; the canvas is 100x100 when neither the attributes nor the
\* viewBox give a dimension, and width > 0 and height > 0 hold when each
\* dimension is given by an attribute that parses to a positive number or,
\* failing that, by a positive viewBox number.
C3_CanvasNeverWhollyUnresolved ==
    /\ pc = "rejected" => visited # {}
    /\ pc # "parsed" =>
        /\ ~(IsZeroOrNaN(svgWidth) /\ IsZeroOrNaN(svgHeight))
        /\ IsZeroOrNaN(AfterViewBox("width", 3))
             /\ IsZeroOrNaN(AfterViewBox("height", 4))
           => svgWidth = Whole(100) /\ svgHeight = Whole(100)
        /\ Positive(AfterViewBox("width", 3))
             /\ Positive(AfterViewBox("height", 4))
           => Positive(svgWidth) /\ Positive(svgHeight)

\* width="200", no height, no viewBox: the canvas is 200 x 0
C3_Witness ==
    /\ pc = "walking"
    /\ RootText("width") = <<"2", "0", "0">>
    /\ svgWidth = Whole(200)
    /\ svgHeight = Whole(0)

\* C6: a width/height attribute that parses to a non-zero number is used as
\* is, whatever the viewBox says; a viewBox of four numbers gives its 3rd
\* and 4th number to exactly the dimensions that are still 0 or NaN; the
\* 100x100 default is applied if and only if both are 0 or NaN after that,
\* so that one unresolved dimension beside a resolved one stays unresolved.
C6_ResolutionPriority ==
    pc # "parsed" =>
        LET w2 == AfterViewBox("width", 3)
            h2 == AfterViewBox("height", 4)
            defaulted == IsZeroOrNaN(w2) /\ IsZeroOrNaN(h2)
        IN  /\ ~IsZeroOrNaN(Parsed("width")) => svgWidth = Parsed("width")
            /\ ~IsZeroOrNaN(Parsed("height")) => svgHeight = Parsed("height")
            /\ defaulted => svgWidth = Whole(100) /\ svgHeight = Whole(100)
            /\ ~defaulted => svgWidth = w2 /\ svgHeight = h2
            /\ ~WellFormedViewBox /\ ~defaulted =>
                 svgWidth = Parsed("width") /\ svgHeight = Parsed("height")

\* width="200" height="100" viewBox="0 0 50 50" resolves to 200x100
C6_Witness ==
    /\ pc = "walking"
    /\ RootText("width") = <<"2", "0", "0">>
    /\ RootText("height") = <<"1", "0", "0">>
    /\ WellFormedViewBox
    /\ ViewBoxNumbers[3] = Whole(50)
    /\ svgWidth = Whole(200)
    /\ svgHeight = Whole(100)

---------------------------------------------------------------------------
(* Coverage and rectangles *)

\* C4: coverageRatio >= 0 in every result, whatever the rect geometry.
C4_CoverageNonNegative ==
    pc = "resolved" =>
        /\ ~result[1].coverageRatio.nan
        /\ result[1].coverageRatio.num >= 0
        /\ result[1].coverageRatio.den > 0

\* a rect attribute read as the claim has it: the parsed number, and 0 when
\* the attribute is missing or does not parse
Coerced(rect, name) ==
    LET text == IF HasAttributes(rect) THEN Attribute(rect, name) ELSE <<>>
    IN  IF text = <<>> \/ isNaN(parseFloat(text)) THEN Whole(0)
        ELSE parseFloat(text)

FillOrBlack(rect) ==
    LET text == IF HasAttributes(rect) THEN Attribute(rect, "fill") ELSE <<>>
    IN  IF text = <<>> THEN <<"#", "0", "0", "0", "0", "0", "0">> ELSE text

\* item is the item of rect, issue aside
ItemOf(item, rect) ==
    /\ item.x = Coerced(rect, "x")
    /\ item.y = Coerced(rect, "y")
    /\ item.width = Coerced(rect, "width")
    /\ item.height = Coerced(rect, "height")
    /\ item.fill = FillOrBlack(rect)

\* the rects of the elements the walk has handled
RectsHandled ==
    UNION { {doc[Children(doc[e], "rect")[k]] :
               k \in 1..Len(Children(doc[e], "rect"))} : 
            e \in {v \in visited : HasChild(doc[v], "rect")} }

RectCountHandled ==
    Cardinality(UNION { {<<e, k>> : k \in 1..Len(Children(doc[e], "rect"))} :
                        e \in {v \in visited : HasChild(doc[v], "rect")} })

\* C5: extraction never raises and appends one item for every rect handled;
\* x, y, width and height are the parsed numbers, 0 for a missing or
\* unparsable attribute (and for a rect without attribute map), and fill is
\* the attribute or '#000000'.
C5_ExtractionNeverFails ==
    /\ pc # "rejected"
    /\ Len(items) = RectCountHandled
    /\ \A i \in 1..Len(items) : \E rect \in RectsHandled : ItemOf(items[i], rect)

\* the claim's test, on the numbers of the item
OutsideCanvas(item, canvasWidth, canvasHeight) ==
    \/ ~item.x.nan /\ item.x.v < 0
    \/ ~item.y.nan /\ item.y.v < 0
    \/ ~item.x.nan /\ ~item.width.nan /\ ~canvasWidth.nan
         /\ item.x.v + item.width.v > canvasWidth.v
    \/ ~item.y.nan /\ ~item.height.nan /\ ~canvasHeight.nan
         /\ item.y.v + item.height.v > canvasHeight.v

\* the canvas of the document: what the root gives, never a nested svg
DocumentCanvas ==
    [width  |-> IF IsZeroOrNaN(AfterViewBox("width", 3))
                   /\ IsZeroOrNaN(AfterViewBox("height", 4))
                THEN Whole(100) ELSE AfterViewBox("width", 3),
     height |-> IF IsZeroOrNaN(AfterViewBox("width", 3))
                   /\ IsZeroOrNaN(AfterViewBox("height", 4))
                THEN Whole(100) ELSE AfterViewBox("height", 4)]

\* C7: an item carries OUT_OF_BOUNDS if and only if x < 0 or y < 0 or
\* x + width > canvas.width or y + height > canvas.height, against the canvas
\* of the document wherever the rect sits; the issues of the result hold
\* OUT_OF_BOUNDS if and only if some item carries it.
C7_OutOfBoundsExact ==
    /\ \A i \in 1..Len(items) :
         /\ HasIssue(items[i]) <=>
              OutsideCanvas(items[i], DocumentCanvas.width, DocumentCanvas.height)
         /\ HasIssue(items[i]) => items[i].issue = "OUT_OF_BOUNDS"
    /\ pc = "resolved" =>
         /\ result[1].items = items
         /\ (\E k \in 1..Len(result[1].issues) :
                 result[1].issues[k] = "OUT_OF_BOUNDS")
            <=> (\E i \in 1..Len(items) : HasIssue(items[i]))

\* of two rects that were extracted, the one that touches the right edge
\* (x + width = canvas.width) carries no issue and the other one carries it
C7_Witness ==
    /\ pc = "resolved"
    /\ \E e \in visited : e # 0 /\ HasChild(doc[e], "rect")
    /\ \E i \in 1..Len(items) :
         /\ ~HasIssue(items[i])
         /\ items[i].x = Whole(80) /\ items[i].width = Whole(20)
    /\ \E i \in 1..Len(items) : HasIssue(items[i])
    /\ result[1].issues = <<"OUT_OF_BOUNDS">>

IssueCount(issues, kind) ==
    Cardinality({k \in 1..Len(issues) : issues[k] = kind})

\* C8: issues holds EMPTY if and only if itemsCount is 0; with EMPTY, there
\* is no item, coverageRatio is 0 and OUT_OF_BOUNDS is absent; each kind
\* appears at most once, EMPTY before OUT_OF_BOUNDS.
C8_EmptyIssue ==
    pc = "resolved" =>
        LET r == result[1]
        IN  /\ IssueCount(r.issues, "EMPTY") > 0 <=> r.itemsCount = 0
            /\ IssueCount(r.issues, "EMPTY") > 0 =>
                 /\ r.items = <<>>
                 /\ RatioIs(r.coverageRatio, 0, 1)
                 /\ IssueCount(r.issues, "OUT_OF_BOUNDS") = 0
            /\ IssueCount(r.issues, "EMPTY") <= 1
            /\ IssueCount(r.issues, "OUT_OF_BOUNDS") <= 1
            /\ r.issues \in {<<>>, <<"EMPTY">>, <<"OUT_OF_BOUNDS">>}

\* a walk that counted a circle and no rect: no EMPTY although items is empty
C8_Witness ==
    /\ pc = "resolved"
    /\ result[1].itemsCount = 1
    /\ result[1].items = <<>>
    /\ result[1].issues = <<>>

\* C9: itemsCount >= the number of items: every rect put into items has
\* been counted.
C9_CountCoversItems ==
    /\ totalElementsCount >= Len(items)
    /\ pc = "resolved" =>
         /\ result[1].itemsCount >= Len(result[1].items)
         /\ result[1].items = items

\* two rects were extracted and counted
C9_Witness ==
    /\ pc = "resolved"
    /\ Len(result[1].items) = 2
    /\ result[1].itemsCount = 2

---------------------------------------------------------------------------
(* Depth cap and cycles *)

\* the number of containers of a chain
ChainLength(d) == (Cardinality(DOMAIN d) - 1) \div 2

Min(a, b) == IF a < b THEN a ELSE b

\* C10: the walk ends with a result; of a chain of nested containers, each
\* holding one rect, exactly those at depth <= MAX_RECURSION_DEPTH are
\* counted and have their rect extracted, a back reference changing nothing.
C10_DepthCapped ==
    Done =>
        /\ pc = "resolved"
        /\ result[1].itemsCount = Min(ChainLength(doc), MAX_RECURSION_DEPTH)
        /\ Len(result[1].items) = Min(ChainLength(doc), MAX_RECURSION_DEPTH)

\* every call of the walk either handles an element not handled before or
\* leaves one call fewer waiting: the walk over a finite input ends
WalkProgress ==
    [][pc = "walking" /\ stack # <<>> =>
         \/ visited \subseteq visited' /\ visited' # visited
         \/ visited' = visited /\ Len(stack') < Len(stack)]_vars

---------------------------------------------------------------------------
(* Inputs with sharing: a small tree and one more reference, from a        *)
(* container p to an element c that is the child of another parent (c may  *)
(* be p itself or one of its ancestors, which closes a cycle)              *)

SharedElements ==
    {[tag |-> "rect", attrs |-> <<InsideRect>>],
     [tag |-> "circle", attrs |-> NoAttributes],
     [tag |-> "g", attrs |-> NoAttributes],
     [tag |-> "svg", attrs |-> NestedSvgAttributes]}

SharedRoots ==
    {[tag |-> "g", attrs |-> NoAttributes],
     [tag |-> "svg", attrs |-> NoAttributes]}

\* d with c appended to the child array t of p
WithReference(d, p, t, c) ==
    LET kids == d[p].kids
        more == IF t \in DOMAIN kids
                THEN [kids EXCEPT ![t] = Append(kids[t], c)]
                ELSE kids @@ (t :> <<c>>)
    IN  [d EXCEPT ![p] = [d[p] EXCEPT !.kids = more]]

SharedTrees ==
    UNION { UNION { { WithReference(Tree(n, parent, el), r[1], el[r[2]].tag, r[2]) :
                        r \in {q \in (1..n) \X (1..n) :
                                 /\ el[q[1]].tag \in ContainerTags
                                 /\ parent[q[2]] # q[1]} } :
                parent \in { f \in [1..n -> 0..(n - 1)] :
                               \A j \in 1..n : f[j] < j /\ (j > 1 => f[j] >= 1) },
                el \in { e \in [1..n -> SharedRoots \cup SharedElements] :
                           /\ e[1] \in SharedRoots
                           /\ \A j \in 2..n : e[j] \in SharedElements } }
            : n \in 1..MaxNodes }

InitShared == \E d \in SharedTrees : WellFormedTree(d) /\ Start(d)

SpecShared == InitShared /\ [][Next]_vars

\* the node objects of tag t: one per identity, however often referenced
NodesOfTag(d, t) ==
    UNION { IF t \in DOMAIN d[i].kids
            THEN {d[i].kids[t][k] : k \in 1..Len(d[i].kids[t])}
            ELSE {} : i \in DOMAIN d }

\* the references (parent, tag, index) to counted nodes held by the
\* containers the walk has handled
ReferencesHandled ==
    {r \in UNION {Occurrences(doc, t) : t \in CountedTags} : r[1] \in visited}

====
